---------------------------- MODULE Spec2Model ----------------------------
(***************************************************************************)
(* State-machine model of the financial-audit canister                     *)
(* (src/src/index.ts; src/unnamed/part_000 is the same canister with       *)
(* comments added).                                                        *)
(*                                                                         *)
(* Modelling conventions                                                   *)
(*   - Identities.  uuidv4() returns a fresh identifier; identifiers are   *)
(*     the numbers 1..MaxIds handed out by the counter nextId.  A text     *)
(*     argument that carries an identifier is the same number, and the     *)
(*     empty text "" is NoId (0).  Principal.fromText / toText belong to   *)
(*     the identity library, which is outside the repository; they are the *)
(*     one-to-one correspondence between a text and its principal.         *)
(*   - Time.  ic.time() is constant within one call and never decreases    *)
(*     between calls.  The clock of the model is the number of identifiers *)
(*     issued so far (Time): it stands still across calls that create      *)
(*     nothing and advances with every call that creates an entity.        *)
(*   - Every canister method is one action: the runtime executes one call  *)
(*     to completion before the next.  Each action records the call, its   *)
(*     arguments and what it returned in the variable last.                *)
(*   - createdFor is a history variable: for every Division and Auditor    *)
(*     entity, the Request whose acceptance created it.                    *)
(***************************************************************************)
EXTENDS Integers, FiniteSets, Sequences, TLC

\* ---------------------------------------------------------------- bounds
MaxIds == 6

NoId == 0
UnknownId == MaxIds + 1
Names == {"", "Acme"}
Categories == {"", "Retail"}
DivNames == {"", "Finance"}
URLs == {"", "ipfs://s1"}

\* ---------------------------------------------------------------- enums
Executive == "management"
Auditor == "auditor"
DivisionManager == "division_manager"

waiting == 0
accepted == 1
rejected == 2

\* ---------------------------------------------------------------- messages
BadPayload == "Bad payload"
UserNotFound == "User not found"
CompanyNotFound == "Company not found"
NoRequestFound == "No request found"
Forbidden == "You have no access to this resource"
FailFinancial == "Fail to upload financial statement"
FailAudit == "Fail to upload audit statement"
ErrorMsg == "Error"

VARIABLES userStorage, companyStorage, divisionStorage, auditorStorage,
          requestStorage, financialStatementStorage, auditStatementStorage,
          nextId, last, createdFor

stores == <<userStorage, companyStorage, divisionStorage, auditorStorage,
            requestStorage, financialStatementStorage, auditStatementStorage>>
vars == <<userStorage, companyStorage, divisionStorage, auditorStorage,
          requestStorage, financialStatementStorage, auditStatementStorage,
          nextId, last, createdFor>>

\* ic.time()
Time == nextId

\* ---------------------------------------------------------------- store
EmptyMap == [k \in {} |-> NoId]
Has(m, k) == k \in DOMAIN m
Insert(m, k, v) == [x \in (DOMAIN m) \cup {k} |-> IF x = k THEN v ELSE m[x]]
Values(m) == {m[k] : k \in DOMAIN m}

PrincipalFromText(t) == t
ToText(p) == p

\* ---------------------------------------------------------------- results
Ok(msg) == [ok |-> TRUE, msg |-> msg]
Err(msg) == [ok |-> FALSE, msg |-> msg]
NoValue == [kind |-> "none", items |-> {}]
NoPayload == [name |-> "", category |-> ""]
Call(op, userId, requestId, txt, payload, result, value) ==
    [op |-> op, userId |-> userId, requestId |-> requestId, text |-> txt,
     payload |-> payload, result |-> result, value |-> value]

Init ==
    /\ userStorage = EmptyMap
    /\ companyStorage = EmptyMap
    /\ divisionStorage = EmptyMap
    /\ auditorStorage = EmptyMap
    /\ requestStorage = EmptyMap
    /\ financialStatementStorage = EmptyMap
    /\ auditStatementStorage = EmptyMap
    /\ nextId = 1
    /\ last = Call("init", NoId, NoId, "", NoPayload, Ok(""), NoValue)
    /\ createdFor = EmptyMap


\* ---------------------------------------------------------------- company
\* mutant: the Executive linked to its own id instead of the Company's
NewAccount_relatedToSelf(userId, companyId, t) ==
    [id |-> PrincipalFromText(userId), role |-> Executive,
     relatedId |-> userId, createdAt |-> t]

NewAccount(userId, companyId, t) ==
    [id |-> PrincipalFromText(userId), role |-> Executive,
     relatedId |-> companyId, createdAt |-> t]

NewCompany(companyId, companyPayload, t) ==
    [id |-> PrincipalFromText(companyId), createdAt |-> t, updatedAt |-> t,
     name |-> companyPayload.name, category |-> companyPayload.category]

createCompany(companyPayload) ==
    IF companyPayload.name = "" \/ companyPayload.category = ""
    THEN /\ last' = Call("createCompany", NoId, NoId, "", companyPayload,
                         Err(BadPayload), NoValue)
         /\ UNCHANGED <<stores, nextId, createdFor>>
    ELSE LET userId == nextId
             companyId == nextId + 1
         IN  /\ companyId <= MaxIds
             /\ userStorage' = Insert(userStorage, PrincipalFromText(userId),
                                      NewAccount(userId, companyId, Time))
             /\ companyStorage' = Insert(companyStorage, PrincipalFromText(companyId),
                                         NewCompany(companyId, companyPayload, Time))
             /\ nextId' = nextId + 2
             /\ last' = Call("createCompany", NoId, NoId, "", companyPayload,
                             Ok("Company created successfully"), NoValue)
             /\ UNCHANGED <<divisionStorage, auditorStorage, requestStorage,
                            financialStatementStorage, auditStatementStorage, createdFor>>

\* mutant: createdAt stamped anew on every update
NewCompanyData_resetsCreatedAt(id, companyData, payload, t) ==
    [id |-> PrincipalFromText(id), createdAt |-> t,
     updatedAt |-> t, name |-> payload.name, category |-> payload.category]

NewCompanyData(id, companyData, payload, t) ==
    [id |-> PrincipalFromText(id), createdAt |-> companyData.createdAt,
     updatedAt |-> t, name |-> payload.name, category |-> payload.category]

\* mutant: an id that is the key of no Company is inserted instead of refused
updateCompany_upsert(id, payload) ==
    IF id = NoId
    THEN /\ last' = Call("updateCompany", id, NoId, "", payload, Err(BadPayload), NoValue)
         /\ UNCHANGED <<stores, nextId, createdFor>>
    ELSE /\ companyStorage' =
              Insert(companyStorage, PrincipalFromText(id),
                     IF Has(companyStorage, id)
                     THEN NewCompanyData(id, companyStorage[id], payload, Time)
                     ELSE NewCompany(id, payload, Time))
         /\ last' = Call("updateCompany", id, NoId, "", payload,
                         Ok("Company updated successfully"), NoValue)
         /\ UNCHANGED <<userStorage, divisionStorage, auditorStorage, requestStorage,
                        financialStatementStorage, auditStatementStorage,
                        nextId, createdFor>>

updateCompany(id, payload) ==
    IF id = NoId
    THEN /\ last' = Call("updateCompany", id, NoId, "", payload, Err(BadPayload), NoValue)
         /\ UNCHANGED <<stores, nextId, createdFor>>
    ELSE IF ~Has(companyStorage, id)
    THEN /\ last' = Call("updateCompany", id, NoId, "", payload,
                         Err(CompanyNotFound), NoValue)
         /\ UNCHANGED <<stores, nextId, createdFor>>
    ELSE /\ companyStorage' = Insert(companyStorage, PrincipalFromText(id),
                                     NewCompanyData(id, companyStorage[id], payload, Time))
         /\ last' = Call("updateCompany", id, NoId, "", payload,
                         Ok("Company updated successfully"), NoValue)
         /\ UNCHANGED <<userStorage, divisionStorage, auditorStorage, requestStorage,
                        financialStatementStorage, auditStatementStorage,
                        nextId, createdFor>>

getCompany(id) ==
    /\ last' = IF id = NoId
               THEN Call("getCompany", id, NoId, "", NoPayload, Err(BadPayload), NoValue)
               ELSE IF ~Has(companyStorage, id)
               THEN Call("getCompany", id, NoId, "", NoPayload,
                         Err(CompanyNotFound), NoValue)
               ELSE Call("getCompany", id, NoId, "", NoPayload, Ok(""),
                         [kind |-> "company", items |-> {companyStorage[id]}])
    /\ UNCHANGED <<stores, nextId, createdFor>>

\* ---------------------------------------------------------------- requests
\* mutant: the pending User created as an Executive, as createCompany's is
NewUser_asExecutive(userId, role, t) ==
    [id |-> PrincipalFromText(userId), role |-> Executive, relatedId |-> NoId,
     createdAt |-> t]

NewUser(userId, role, t) ==
    [id |-> PrincipalFromText(userId), role |-> role, relatedId |-> NoId,
     createdAt |-> t]

\* mutant: the Request pointing at its own id instead of the pending User's
NewRequest_ownIdAsUser(requestId, userId, role, companyId, divisionName, t) ==
    [id |-> PrincipalFromText(requestId), userId |-> requestId, role |-> role,
     status |-> waiting, companyId |-> companyId, divisionName |-> divisionName,
     createdAt |-> t]

NewRequest(requestId, userId, role, companyId, divisionName, t) ==
    [id |-> PrincipalFromText(requestId), userId |-> userId, role |-> role,
     status |-> waiting, companyId |-> companyId, divisionName |-> divisionName,
     createdAt |-> t]

createDivisionRequest(companyId, divName) ==
    IF companyId = NoId \/ divName = ""
    THEN /\ last' = Call("createDivisionRequest", companyId, NoId, divName, NoPayload,
                         Err(BadPayload), NoValue)
         /\ UNCHANGED <<stores, nextId, createdFor>>
    ELSE IF ~Has(companyStorage, PrincipalFromText(companyId))
    THEN /\ last' = Call("createDivisionRequest", companyId, NoId, divName, NoPayload,
                         Err(CompanyNotFound), NoValue)
         /\ UNCHANGED <<stores, nextId, createdFor>>
    ELSE LET userId == nextId
             requestId == nextId + 1
         IN  /\ requestId <= MaxIds
             /\ userStorage' = Insert(userStorage, PrincipalFromText(userId),
                                      NewUser(userId, DivisionManager, Time))
             /\ requestStorage' = Insert(requestStorage, PrincipalFromText(requestId),
                                         NewRequest(requestId, userId, DivisionManager,
                                                    companyId, divName, Time))
             /\ nextId' = nextId + 2
             /\ last' = Call("createDivisionRequest", companyId, NoId, divName, NoPayload,
                             Ok("Division request successfully created"), NoValue)
             /\ UNCHANGED <<companyStorage, divisionStorage, auditorStorage,
                            financialStatementStorage, auditStatementStorage, createdFor>>

\* mutant: the pending User inserted before the company is looked up
createAuditorRequest_userFirst(companyId) ==
    IF companyId = NoId
    THEN /\ last' = Call("createAuditorRequest", companyId, NoId, "", NoPayload,
                         Err(BadPayload), NoValue)
         /\ UNCHANGED <<stores, nextId, createdFor>>
    ELSE LET userId == nextId
             requestId == nextId + 1
         IN  /\ requestId <= MaxIds
             /\ userStorage' = Insert(userStorage, PrincipalFromText(userId),
                                      NewUser(userId, Auditor, Time))
             /\ nextId' = nextId + 2
             /\ IF ~Has(companyStorage, PrincipalFromText(companyId))
                THEN /\ last' = Call("createAuditorRequest", companyId, NoId, "",
                                     NoPayload, Err(CompanyNotFound), NoValue)
                     /\ UNCHANGED requestStorage
                ELSE /\ requestStorage' =
                          Insert(requestStorage, PrincipalFromText(requestId),
                                 NewRequest(requestId, userId, Auditor,
                                            companyId, "auditor", Time))
                     /\ last' = Call("createAuditorRequest", companyId, NoId, "",
                                     NoPayload,
                                     Ok("Auditor request successfully created"), NoValue)
             /\ UNCHANGED <<companyStorage, divisionStorage, auditorStorage,
                            financialStatementStorage, auditStatementStorage, createdFor>>

createAuditorRequest(companyId) ==
    IF companyId = NoId
    THEN /\ last' = Call("createAuditorRequest", companyId, NoId, "", NoPayload,
                         Err(BadPayload), NoValue)
         /\ UNCHANGED <<stores, nextId, createdFor>>
    ELSE IF ~Has(companyStorage, PrincipalFromText(companyId))
    THEN /\ last' = Call("createAuditorRequest", companyId, NoId, "", NoPayload,
                         Err(CompanyNotFound), NoValue)
         /\ UNCHANGED <<stores, nextId, createdFor>>
    ELSE LET userId == nextId
             requestId == nextId + 1
         IN  /\ requestId <= MaxIds
             /\ userStorage' = Insert(userStorage, PrincipalFromText(userId),
                                      NewUser(userId, Auditor, Time))
             /\ requestStorage' = Insert(requestStorage, PrincipalFromText(requestId),
                                         NewRequest(requestId, userId, Auditor,
                                                    companyId, "auditor", Time))
             /\ nextId' = nextId + 2
             /\ last' = Call("createAuditorRequest", companyId, NoId, "", NoPayload,
                             Ok("Auditor request successfully created"), NoValue)
             /\ UNCHANGED <<companyStorage, divisionStorage, auditorStorage,
                            financialStatementStorage, auditStatementStorage, createdFor>>


\* ---------------------------------------------------------------- queries
\* Array.prototype.find over requestStorage.values(): the first value, in key
\* order, that satisfies the predicate, or undefined.  Keys are random
\* version-4 UUIDs, so any matching value may be the first one: Find gives
\* the possible results for the set of values that satisfy the predicate.
Undefined == [kind |-> "undefined", items |-> {}]
Find(matching) ==
    IF matching = {}
    THEN {Undefined}
    ELSE {[kind |-> "request", items |-> {a}] : a \in matching}

\* mutant: the companyId filter left out
AllRequestsOf_everyCompany(userData) == Find(Values(requestStorage))

AllRequestsOf(userData) ==
    Find({a \in Values(requestStorage) : a.companyId = userData.relatedId})

WaitingRequestsOf(userData) ==
    Find({a \in Values(requestStorage) :
              a.companyId = userData.relatedId /\ a.status = waiting})

getAllRequests(userId) ==
    /\ IF userId = NoId
       THEN last' = Call("getAllRequests", userId, NoId, "", NoPayload,
                         Err(BadPayload), NoValue)
       ELSE IF ~Has(userStorage, PrincipalFromText(userId))
       THEN last' = Call("getAllRequests", userId, NoId, "", NoPayload,
                         Err(UserNotFound), NoValue)
       ELSE IF userStorage[PrincipalFromText(userId)].role # Executive
       THEN last' = Call("getAllRequests", userId, NoId, "", NoPayload,
                         Err(Forbidden), NoValue)
       ELSE \E requests \in AllRequestsOf(userStorage[PrincipalFromText(userId)]) :
                last' = Call("getAllRequests", userId, NoId, "", NoPayload,
                             Ok(""), requests)
    /\ UNCHANGED <<stores, nextId, createdFor>>

getWaitingRequests(userId) ==
    /\ IF userId = NoId
       THEN last' = Call("getWaitingRequests", userId, NoId, "", NoPayload,
                         Err(BadPayload), NoValue)
       ELSE IF ~Has(userStorage, PrincipalFromText(userId))
       THEN last' = Call("getWaitingRequests", userId, NoId, "", NoPayload,
                         Err(UserNotFound), NoValue)
       ELSE IF userStorage[PrincipalFromText(userId)].role # Executive
       THEN last' = Call("getWaitingRequests", userId, NoId, "", NoPayload,
                         Err(Forbidden), NoValue)
       ELSE \E requests \in WaitingRequestsOf(userStorage[PrincipalFromText(userId)]) :
                last' = Call("getWaitingRequests", userId, NoId, "", NoPayload,
                             Ok(""), requests)
    /\ UNCHANGED <<stores, nextId, createdFor>>

\* ---------------------------------------------------------------- accept
\* mutant: the ownership check left out
OwnsRequest_anyCompany(requestData, userData) == TRUE

OwnsRequest(requestData, userData) == requestData.companyId = userData.relatedId

NewDivision(divId, userData, requestData, t) ==
    [id |-> PrincipalFromText(divId), companyId |-> userData.relatedId,
     divisionName |-> requestData.divisionName, verifiedAt |-> t]

\* mutant: the Auditor tagged with the accepting Executive in place of its company
NewAuditor_executiveAsCompany(auditorId, userData, t) ==
    [id |-> PrincipalFromText(auditorId), companyId |-> ToText(userData.id),
     verifiedAt |-> t]

NewAuditor(auditorId, userData, t) ==
    [id |-> PrincipalFromText(auditorId), companyId |-> userData.relatedId,
     verifiedAt |-> t]

\* mutant: relatedId copied from the pending User instead of the new Division
NewUserDataDivision_keepsRelatedId(relatedUserData, divId) ==
    [id |-> relatedUserData.id, role |-> DivisionManager,
     relatedId |-> relatedUserData.relatedId, createdAt |-> relatedUserData.createdAt]

\* the User written back in the DivisionManager branch
NewUserDataDivision(relatedUserData, divId) ==
    [id |-> relatedUserData.id, role |-> DivisionManager, relatedId |-> divId,
     createdAt |-> relatedUserData.createdAt]

\* the User written back in the else (Auditor) branch
NewUserDataAuditor(relatedUserData, auditorId) ==
    [id |-> relatedUserData.id, role |-> DivisionManager, relatedId |-> auditorId,
     createdAt |-> relatedUserData.createdAt]

\* mutant: the status written as accepted, whatever it was
AcceptedRequests_marksAccepted(requests, requestData) ==
    Insert(requests, requestData.id, [requestData EXCEPT !.status = accepted])

\* mutant: the Request taken out of the store once it is accepted
AcceptedRequests_removesRequest(requests, requestData) ==
    [x \in (DOMAIN requests) \ {requestData.id} |-> requests[x]]

\* requestStorage after an acceptance: acceptRequest never writes to it
AcceptedRequests(requests, requestData) == requests

AcceptCall(userId, requestId, result) ==
    Call("acceptRequest", userId, requestId, "", NoPayload, result, NoValue)

acceptRequest(userId, requestId) ==
    IF userId = NoId
    THEN /\ last' = AcceptCall(userId, requestId, Err(BadPayload))
         /\ UNCHANGED <<stores, nextId, createdFor>>
    ELSE IF ~Has(userStorage, PrincipalFromText(userId))
    THEN /\ last' = AcceptCall(userId, requestId, Err(UserNotFound))
         /\ UNCHANGED <<stores, nextId, createdFor>>
    ELSE IF userStorage[PrincipalFromText(userId)].role # Executive
    THEN /\ last' = AcceptCall(userId, requestId, Err(Forbidden))
         /\ UNCHANGED <<stores, nextId, createdFor>>
    ELSE IF ~Has(requestStorage, PrincipalFromText(requestId))
    THEN /\ last' = AcceptCall(userId, requestId, Err(NoRequestFound))
         /\ UNCHANGED <<stores, nextId, createdFor>>
    ELSE IF ~OwnsRequest(requestStorage[PrincipalFromText(requestId)],
                         userStorage[PrincipalFromText(userId)])
    THEN /\ last' = AcceptCall(userId, requestId, Err(Forbidden))
         /\ UNCHANGED <<stores, nextId, createdFor>>
    ELSE LET userData == userStorage[PrincipalFromText(userId)]
             requestData == requestStorage[PrincipalFromText(requestId)]
             entityId == nextId
         IN  IF ~Has(userStorage, PrincipalFromText(requestData.userId))
             THEN /\ last' = AcceptCall(userId, requestId, Err(UserNotFound))
                  /\ UNCHANGED <<stores, nextId, createdFor>>
             ELSE /\ entityId <= MaxIds
                  /\ IF requestData.role = DivisionManager
                     THEN /\ divisionStorage' =
                                Insert(divisionStorage, PrincipalFromText(entityId),
                                       NewDivision(entityId, userData, requestData, Time))
                          /\ userStorage' =
                                Insert(userStorage, requestData.userId,
                                       NewUserDataDivision(
                                           userStorage[PrincipalFromText(requestData.userId)],
                                           entityId))
                          /\ UNCHANGED auditorStorage
                     ELSE /\ auditorStorage' =
                                Insert(auditorStorage, PrincipalFromText(entityId),
                                       NewAuditor(entityId, userData, Time))
                          /\ userStorage' =
                                Insert(userStorage, requestData.userId,
                                       NewUserDataAuditor(
                                           userStorage[PrincipalFromText(requestData.userId)],
                                           entityId))
                          /\ UNCHANGED divisionStorage
                  /\ requestStorage' = AcceptedRequests(requestStorage, requestData)
                  /\ nextId' = nextId + 1
                  /\ createdFor' = Insert(createdFor, entityId, requestData.id)
                  /\ last' = AcceptCall(userId, requestId,
                                        Ok("Request successfully accepted"))
                  /\ UNCHANGED <<companyStorage, financialStatementStorage,
                                 auditStatementStorage>>

\* ---------------------------------------------------------------- reject
\* mutant: userId taken from the caller instead of the Request
NewRequestData_callerAsUser(requestData, userData) ==
    [id |-> requestData.id, userId |-> ToText(userData.id), role |-> requestData.role,
     status |-> rejected, companyId |-> userData.relatedId,
     divisionName |-> requestData.divisionName, createdAt |-> requestData.createdAt]

NewRequestData(requestData, userData) ==
    [id |-> requestData.id, userId |-> requestData.userId, role |-> requestData.role,
     status |-> rejected, companyId |-> userData.relatedId,
     divisionName |-> requestData.divisionName, createdAt |-> requestData.createdAt]

RejectCall(userId, requestId, result) ==
    Call("rejectRequest", userId, requestId, "", NoPayload, result, NoValue)

\* mutant: the Request looked up before the caller's role is checked
rejectRequest_requestFirst(userId, requestId) ==
    IF userId = NoId
    THEN /\ last' = RejectCall(userId, requestId, Err(BadPayload))
         /\ UNCHANGED <<stores, nextId, createdFor>>
    ELSE IF ~Has(userStorage, PrincipalFromText(userId))
    THEN /\ last' = RejectCall(userId, requestId, Err(UserNotFound))
         /\ UNCHANGED <<stores, nextId, createdFor>>
    ELSE IF ~Has(requestStorage, PrincipalFromText(requestId))
    THEN /\ last' = RejectCall(userId, requestId, Err(NoRequestFound))
         /\ UNCHANGED <<stores, nextId, createdFor>>
    ELSE IF userStorage[PrincipalFromText(userId)].role # Executive
    THEN /\ last' = RejectCall(userId, requestId, Err(Forbidden))
         /\ UNCHANGED <<stores, nextId, createdFor>>
    ELSE IF ~OwnsRequest(requestStorage[PrincipalFromText(requestId)],
                         userStorage[PrincipalFromText(userId)])
    THEN /\ last' = RejectCall(userId, requestId, Err(Forbidden))
         /\ UNCHANGED <<stores, nextId, createdFor>>
    ELSE /\ requestStorage' =
              Insert(requestStorage, requestStorage[PrincipalFromText(requestId)].id,
                     NewRequestData(requestStorage[PrincipalFromText(requestId)],
                                    userStorage[PrincipalFromText(userId)]))
         /\ last' = RejectCall(userId, requestId, Ok("Request successfully rejected"))
         /\ UNCHANGED <<userStorage, companyStorage, divisionStorage, auditorStorage,
                        financialStatementStorage, auditStatementStorage,
                        nextId, createdFor>>

rejectRequest(userId, requestId) ==
    IF userId = NoId
    THEN /\ last' = RejectCall(userId, requestId, Err(BadPayload))
         /\ UNCHANGED <<stores, nextId, createdFor>>
    ELSE IF ~Has(userStorage, PrincipalFromText(userId))
    THEN /\ last' = RejectCall(userId, requestId, Err(UserNotFound))
         /\ UNCHANGED <<stores, nextId, createdFor>>
    ELSE IF userStorage[PrincipalFromText(userId)].role # Executive
    THEN /\ last' = RejectCall(userId, requestId, Err(Forbidden))
         /\ UNCHANGED <<stores, nextId, createdFor>>
    ELSE IF ~Has(requestStorage, PrincipalFromText(requestId))
    THEN /\ last' = RejectCall(userId, requestId, Err(NoRequestFound))
         /\ UNCHANGED <<stores, nextId, createdFor>>
    ELSE IF ~OwnsRequest(requestStorage[PrincipalFromText(requestId)],
                         userStorage[PrincipalFromText(userId)])
    THEN /\ last' = RejectCall(userId, requestId, Err(Forbidden))
         /\ UNCHANGED <<stores, nextId, createdFor>>
    ELSE /\ requestStorage' =
              Insert(requestStorage, requestStorage[PrincipalFromText(requestId)].id,
                     NewRequestData(requestStorage[PrincipalFromText(requestId)],
                                    userStorage[PrincipalFromText(userId)]))
         /\ last' = RejectCall(userId, requestId, Ok("Request successfully rejected"))
         /\ UNCHANGED <<userStorage, companyStorage, divisionStorage, auditorStorage,
                        financialStatementStorage, auditStatementStorage,
                        nextId, createdFor>>


\* ---------------------------------------------------------------- uploads
\* mutant: the statement tagged with the Division's id in place of its company
NewFinStatement_divisionAsCompany(id, divisionData, URL, t) ==
    [id |-> PrincipalFromText(id), companyId |-> ToText(divisionData.id), URL |-> URL,
     uploadedBy |-> ToText(divisionData.id), uploadedAt |-> t]

NewFinStatement(id, divisionData, URL, t) ==
    [id |-> PrincipalFromText(id), companyId |-> divisionData.companyId, URL |-> URL,
     uploadedBy |-> ToText(divisionData.id), uploadedAt |-> t]

NewAuditStatement(id, auditorData, URL, t) ==
    [id |-> PrincipalFromText(id), companyId |-> auditorData.companyId, URL |-> URL,
     uploadedBy |-> ToText(auditorData.id), uploadedAt |-> t]

\* mutant: the role check left out
RoleIs_anyRole(userData, role) == TRUE

\* userData.role === role, the exact match the uploads require
RoleIs(userData, role) == userData.role = role

FinancialCall(userId, URL, result) ==
    Call("uploadFinancialStatement", userId, NoId, URL, NoPayload, result, NoValue)

AuditCall(userId, URL, result) ==
    Call("uploadAuditStatement", userId, NoId, URL, NoPayload, result, NoValue)

uploadFinancialStatement(userId, URL) ==
    IF userId = NoId \/ URL = ""
    THEN /\ last' = FinancialCall(userId, URL, Err(BadPayload))
         /\ UNCHANGED <<stores, nextId, createdFor>>
    ELSE IF ~Has(userStorage, PrincipalFromText(userId))
    THEN /\ last' = FinancialCall(userId, URL, Err(UserNotFound))
         /\ UNCHANGED <<stores, nextId, createdFor>>
    ELSE IF ~RoleIs(userStorage[PrincipalFromText(userId)], DivisionManager)
    THEN /\ last' = FinancialCall(userId, URL, Err(FailFinancial))
         /\ UNCHANGED <<stores, nextId, createdFor>>
    ELSE IF ~Has(divisionStorage,
                 PrincipalFromText(userStorage[PrincipalFromText(userId)].relatedId))
    THEN /\ last' = FinancialCall(userId, URL, Err(ErrorMsg))
         /\ UNCHANGED <<stores, nextId, createdFor>>
    ELSE LET userData == userStorage[PrincipalFromText(userId)]
             divisionData == divisionStorage[PrincipalFromText(userData.relatedId)]
             id == nextId
         IN  /\ id <= MaxIds
             /\ financialStatementStorage' =
                    Insert(financialStatementStorage, PrincipalFromText(id),
                           NewFinStatement(id, divisionData, URL, Time))
             /\ nextId' = nextId + 1
             /\ last' = FinancialCall(userId, URL,
                                      Ok("Successfully uploaded financial statement"))
             /\ UNCHANGED <<userStorage, companyStorage, divisionStorage,
                            auditorStorage, requestStorage, auditStatementStorage, createdFor>>

uploadAuditStatement(userId, URL) ==
    IF userId = NoId \/ URL = ""
    THEN /\ last' = AuditCall(userId, URL, Err(BadPayload))
         /\ UNCHANGED <<stores, nextId, createdFor>>
    ELSE IF ~Has(userStorage, PrincipalFromText(userId))
    THEN /\ last' = AuditCall(userId, URL, Err(UserNotFound))
         /\ UNCHANGED <<stores, nextId, createdFor>>
    ELSE IF ~RoleIs(userStorage[PrincipalFromText(userId)], Auditor)
    THEN /\ last' = AuditCall(userId, URL, Err(FailAudit))
         /\ UNCHANGED <<stores, nextId, createdFor>>
    ELSE IF ~Has(auditorStorage,
                 PrincipalFromText(userStorage[PrincipalFromText(userId)].relatedId))
    THEN /\ last' = AuditCall(userId, URL, Err(ErrorMsg))
         /\ UNCHANGED <<stores, nextId, createdFor>>
    ELSE LET userData == userStorage[PrincipalFromText(userId)]
             auditorData == auditorStorage[PrincipalFromText(userData.relatedId)]
             id == nextId
         IN  /\ id <= MaxIds
             /\ auditStatementStorage' =
                    Insert(auditStatementStorage, PrincipalFromText(id),
                           NewAuditStatement(id, auditorData, URL, Time))
             /\ nextId' = nextId + 1
             /\ last' = AuditCall(userId, URL,
                                  Ok("Successfully uploaded audit statement"))
             /\ UNCHANGED <<userStorage, companyStorage, divisionStorage,
                            auditorStorage, requestStorage, financialStatementStorage, createdFor>>

\* ---------------------------------------------------------------- system
\* The arguments a caller can pass.  An identifier text is the empty text,
\* the text of a stored key of the collection the method looks it up in, or a
\* text that is the key of nothing (UnknownId: every get misses it, as it
\* misses a key of another collection).  requestId is never tested for
\* emptiness by the code and is passed non-empty.
Payloads == {p \in [name : Names, category : Categories] :
                 p.name # "" \/ p.category # ""}
UserIdArgs == {NoId, UnknownId} \cup DOMAIN userStorage
CompanyIdArgs == {NoId, UnknownId} \cup DOMAIN companyStorage
RequestIdArgs == {UnknownId} \cup DOMAIN requestStorage

Next ==
    \/ \E companyPayload \in Payloads : createCompany(companyPayload)
    \/ \E id \in CompanyIdArgs, payload \in Payloads : updateCompany(id, payload)
    \/ \E id \in CompanyIdArgs \ {NoId} : getCompany(id)
    \/ \E companyId \in CompanyIdArgs, divName \in DivNames :
           createDivisionRequest(companyId, divName)
    \/ \E companyId \in CompanyIdArgs : createAuditorRequest(companyId)
    \/ \E userId \in UserIdArgs : getAllRequests(userId)
    \/ \E userId \in UserIdArgs : getWaitingRequests(userId)
    \/ \E userId \in UserIdArgs, requestId \in RequestIdArgs :
           acceptRequest(userId, requestId)
    \/ \E userId \in UserIdArgs, requestId \in RequestIdArgs :
           rejectRequest(userId, requestId)
    \/ \E userId \in UserIdArgs, URL \in URLs : uploadFinancialStatement(userId, URL)
    \/ \E userId \in UserIdArgs, URL \in URLs : uploadAuditStatement(userId, URL)

Spec == Init /\ [][Next]_vars


\* ================================================================ claims
\* the Requests that have been accepted at least once
AcceptedOnce == {createdFor[e] : e \in DOMAIN createdFor}

\* the step just taken was a call of acceptRequest / rejectRequest that
\* resolved its caller and its Request (both read in the state before it)
ResolvedStep(ops) ==
    /\ last'.op \in ops
    /\ Has(userStorage, last'.userId)
    /\ Has(requestStorage, last'.requestId)

OwningExecutive(c, r) == c.role = Executive /\ c.relatedId = r.companyId

\* C1: a Request whose status is not Waiting keeps exactly that status across
\* every step (so it never returns to Waiting, and Accepted and Rejected are
\* kept under every later operation).
C1_TerminalStatusKept ==
    [][\A r \in DOMAIN requestStorage :
           requestStorage[r].status # waiting
               => /\ r \in DOMAIN requestStorage'
                  /\ requestStorage'[r].status = requestStorage[r].status]_vars

\* C1 witness: acceptRequest has just returned Ok on a Request that was
\* rejected before, and the Request is still Rejected.
C1_Witness ==
    /\ last.op = "acceptRequest"
    /\ last.result.ok
    /\ requestStorage[last.requestId].status = rejected

\* C2: a step in which acceptRequest returns Ok for a Waiting Request leaves
\* that Request with status Accepted.
C2_AcceptMarksAccepted ==
    [][(/\ last'.op = "acceptRequest"
        /\ last'.result.ok
        /\ requestStorage[last'.requestId].status = waiting)
           => requestStorage'[last'.requestId].status = accepted]_vars

\* C3: the Divisions and Auditors in the store never outnumber the Requests
\* that have been accepted at least once.
C3_OneEntityPerRequest ==
    Cardinality(DOMAIN divisionStorage) + Cardinality(DOMAIN auditorStorage)
        <= Cardinality(AcceptedOnce)

\* C4: acceptRequest or rejectRequest called by the owning Executive on a
\* Request that is already Accepted or Rejected returns an error and leaves
\* the seven collections unchanged.
C4_TerminalNotResolvedAgain ==
    [][(/\ ResolvedStep({"acceptRequest", "rejectRequest"})
        /\ OwningExecutive(userStorage[last'.userId], requestStorage[last'.requestId])
        /\ requestStorage[last'.requestId].status \in {accepted, rejected})
           => (~last'.result.ok /\ UNCHANGED stores)]_vars

\* C5: acceptRequest / rejectRequest on a stored Request by a stored caller
\* returns Ok only for an Executive whose relatedId is the Request's
\* companyId; every other such caller gets the no-access error and the User,
\* Request, Division and Auditor collections stay as they were.
C5_OnlyOwningExecutive ==
    [][ResolvedStep({"acceptRequest", "rejectRequest"})
           => LET c == userStorage[last'.userId]
                  r == requestStorage[last'.requestId]
              IN  /\ last'.result.ok => OwningExecutive(c, r)
                  /\ ~OwningExecutive(c, r)
                        => /\ last'.result = Err(Forbidden)
                           /\ UNCHANGED <<userStorage, requestStorage,
                                          divisionStorage, auditorStorage>>]_vars

\* C5 witness: the Executive of another company has just been refused the
\* acceptance of a stored Request.
C5_Witness ==
    /\ last.op = "acceptRequest"
    /\ last.result = Err(Forbidden)
    /\ Has(userStorage, last.userId)
    /\ Has(requestStorage, last.requestId)
    /\ userStorage[last.userId].role = Executive
    /\ userStorage[last.userId].relatedId # requestStorage[last.requestId].companyId
    /\ Has(companyStorage, userStorage[last.userId].relatedId)

\* C6: a successful acceptRequest(E, r) of a DivisionManager Request adds
\* exactly one Division d, with d.companyId = r.companyId = E.relatedId and
\* d.divisionName = r.divisionName; the User r.userId gets role
\* DivisionManager and relatedId d.id and keeps its id and createdAt; no
\* other User changes and no User is added or removed.
C6_AcceptDivisionRequest ==
    [][(/\ last'.op = "acceptRequest"
        /\ last'.result.ok
        /\ requestStorage[last'.requestId].role = DivisionManager)
           => LET E == userStorage[last'.userId]
                  r == requestStorage[last'.requestId]
                  new == DOMAIN divisionStorage' \ DOMAIN divisionStorage
              IN  /\ Cardinality(new) = 1
                  /\ DOMAIN divisionStorage \subseteq DOMAIN divisionStorage'
                  /\ \A d \in DOMAIN divisionStorage :
                         divisionStorage'[d] = divisionStorage[d]
                  /\ \A d \in new :
                         /\ divisionStorage'[d].id = d
                         /\ divisionStorage'[d].companyId = r.companyId
                         /\ r.companyId = E.relatedId
                         /\ divisionStorage'[d].divisionName = r.divisionName
                         /\ userStorage'[r.userId].relatedId = ToText(d)
                  /\ userStorage'[r.userId].role = DivisionManager
                  /\ userStorage'[r.userId].id = userStorage[r.userId].id
                  /\ userStorage'[r.userId].createdAt = userStorage[r.userId].createdAt
                  /\ DOMAIN userStorage' = DOMAIN userStorage
                  /\ \A u \in DOMAIN userStorage \ {r.userId} :
                         userStorage'[u] = userStorage[u]]_vars

\* C6 witness: a DivisionManager Request has just been accepted, later than
\* its pending User was created.
C6_Witness ==
    /\ last.op = "acceptRequest"
    /\ last.result.ok
    /\ requestStorage[last.requestId].role = DivisionManager
    /\ \E d \in DOMAIN divisionStorage :
           /\ createdFor[d] = last.requestId
           /\ divisionStorage[d].verifiedAt
                  > userStorage[requestStorage[last.requestId].userId].createdAt

\* C7: a successful acceptRequest(E, r) of an Auditor Request adds an Auditor
\* entity a with a.companyId = r.companyId, and the User r.userId has role
\* Auditor and relatedId a.id afterwards.
C7_AcceptAuditorRequest ==
    [][(/\ last'.op = "acceptRequest"
        /\ last'.result.ok
        /\ requestStorage[last'.requestId].role = Auditor)
           => LET r == requestStorage[last'.requestId]
              IN  \E a \in DOMAIN auditorStorage' \ DOMAIN auditorStorage :
                      /\ auditorStorage'[a].companyId = r.companyId
                      /\ userStorage'[r.userId].role = Auditor
                      /\ userStorage'[r.userId].relatedId = ToText(a)]_vars

\* C8: uploadAuditStatement(u, url) with a non-empty url, by the User u of an
\* Auditor Request that has been accepted, returns Ok and appends one
\* AuditStatement whose companyId is the Request's company and whose
\* uploadedBy is an Auditor entity created by that acceptance.
C8_AcceptedAuditorUploads ==
    [][\A r \in AcceptedOnce :
           (/\ last'.op = "uploadAuditStatement"
            /\ last'.text # ""
            /\ requestStorage[r].role = Auditor
            /\ requestStorage[r].userId = last'.userId)
               => /\ last'.result.ok
                  /\ \E s \in DOMAIN auditStatementStorage'
                                 \ DOMAIN auditStatementStorage :
                         /\ auditStatementStorage'[s].companyId
                                = requestStorage[r].companyId
                         /\ Has(createdFor, auditStatementStorage'[s].uploadedBy)
                         /\ createdFor[auditStatementStorage'[s].uploadedBy] = r]_vars

\* C9: once acceptRequest(E, r) has succeeded, a successful
\* getWaitingRequests(E) does not return r, and returns no Request at all
\* when r is the only Request of E's company.
C9_AcceptedNotListedAsWaiting ==
    \A r \in AcceptedOnce :
        (/\ last.op = "getWaitingRequests"
         /\ last.result.ok
         /\ userStorage[last.userId].relatedId = requestStorage[r].companyId)
            => /\ requestStorage[r] \notin last.value.items
               /\ (\A a \in Values(requestStorage) :
                       a.companyId = requestStorage[r].companyId => a.id = r)
                     => last.value.items = {}

\* C10: uploadFinancialStatement(u, url) with a non-empty url, by the User u
\* of a DivisionManager Request r: once r has been accepted it returns Ok and
\* appends exactly one FinancialStatement, whose companyId is r's company and
\* whose uploadedBy is a Division created by accepting r; before r is
\* accepted it fails and appends nothing.
C10_UploadAfterAcceptance ==
    [][\A r \in DOMAIN requestStorage :
           (/\ last'.op = "uploadFinancialStatement"
            /\ last'.text # ""
            /\ requestStorage[r].role = DivisionManager
            /\ requestStorage[r].userId = last'.userId)
               => IF r \in AcceptedOnce
                  THEN LET new == DOMAIN financialStatementStorage'
                                      \ DOMAIN financialStatementStorage
                       IN  /\ last'.result.ok
                           /\ Cardinality(new) = 1
                           /\ \A s \in DOMAIN financialStatementStorage :
                                  /\ s \in DOMAIN financialStatementStorage'
                                  /\ financialStatementStorage'[s]
                                         = financialStatementStorage[s]
                           /\ \A s \in new :
                                  LET st == financialStatementStorage'[s]
                                  IN  /\ st.companyId = requestStorage[r].companyId
                                      /\ st.URL = last'.text
                                      /\ Has(divisionStorage, st.uploadedBy)
                                      /\ createdFor[st.uploadedBy] = r
                  ELSE /\ ~last'.result.ok
                       /\ UNCHANGED stores]_vars

\* C10 witness: the User of an accepted DivisionManager Request has just
\* uploaded a financial statement.
C10_Witness ==
    /\ last.op = "uploadFinancialStatement"
    /\ last.result.ok
    /\ \E r \in AcceptedOnce :
           /\ requestStorage[r].userId = last.userId
           /\ \E s \in DOMAIN financialStatementStorage :
                  createdFor[financialStatementStorage[s].uploadedBy] = r

\* C11: a successful getAllRequests(E) returns every stored Request of E's
\* company, and a successful getWaitingRequests(E) every such Request that
\* is Waiting: all of them, however many there are.
C11_QueriesReturnAllMatching ==
    /\ (last.op = "getAllRequests" /\ last.result.ok)
           => last.value.items
                  = {a \in Values(requestStorage) :
                         a.companyId = userStorage[last.userId].relatedId}
    /\ (last.op = "getWaitingRequests" /\ last.result.ok)
           => last.value.items
                  = {a \in Values(requestStorage) :
                         /\ a.companyId = userStorage[last.userId].relatedId
                         /\ a.status = waiting}

\* C12: createCompany with a non-empty name and category adds exactly one
\* User, with role Executive, and exactly one Company, with the payload's
\* fields, user.relatedId = company.id and createdAt = updatedAt; the users and
\* companies already stored and the five other collections are unchanged.
\* With an empty name or category it returns the bad-payload error and adds
\* nothing.
C12_CreateCompany ==
    [][last'.op = "createCompany"
           => IF last'.payload.name # "" /\ last'.payload.category # ""
              THEN LET newUsers == DOMAIN userStorage' \ DOMAIN userStorage
                       newCompanies == DOMAIN companyStorage' \ DOMAIN companyStorage
                   IN  /\ last'.result.ok
                       /\ Cardinality(newUsers) = 1
                       /\ Cardinality(newCompanies) = 1
                       /\ \A u \in newUsers, c \in newCompanies :
                              /\ userStorage'[u].role = Executive
                              /\ userStorage'[u].id = u
                              /\ companyStorage'[c].id = c
                              /\ userStorage'[u].relatedId = ToText(companyStorage'[c].id)
                              /\ companyStorage'[c].createdAt = companyStorage'[c].updatedAt
                              /\ companyStorage'[c].name = last'.payload.name
                              /\ companyStorage'[c].category = last'.payload.category
                       /\ \A u \in DOMAIN userStorage :
                              u \in DOMAIN userStorage' /\ userStorage'[u] = userStorage[u]
                       /\ \A c \in DOMAIN companyStorage :
                              /\ c \in DOMAIN companyStorage'
                              /\ companyStorage'[c] = companyStorage[c]
                       /\ UNCHANGED <<divisionStorage, auditorStorage, requestStorage,
                                      financialStatementStorage, auditStatementStorage>>
              ELSE /\ last'.result = Err(BadPayload)
                   /\ UNCHANGED stores]_vars

\* C12 witness: a second company has just been created beside a stored one.
C12_Witness ==
    /\ last.op = "createCompany"
    /\ last.result.ok
    /\ Cardinality(DOMAIN companyStorage) = 2
    /\ Cardinality({u \in DOMAIN userStorage : userStorage[u].role = Executive}) = 2

\* C13: a stored Company keeps its id and createdAt across every step, its
\* updatedAt never decreases, a successful updateCompany(c.id, payload)
\* replaces its payload fields, and createdAt <= updatedAt in every reachable
\* state.
C13_CompanyTimestamps ==
    /\ [](\A c \in DOMAIN companyStorage :
              companyStorage[c].createdAt <= companyStorage[c].updatedAt)
    /\ [][\A c \in DOMAIN companyStorage :
              /\ c \in DOMAIN companyStorage'
              /\ companyStorage'[c].id = companyStorage[c].id
              /\ companyStorage'[c].createdAt = companyStorage[c].createdAt
              /\ companyStorage'[c].updatedAt >= companyStorage[c].updatedAt
              /\ (last'.op = "updateCompany" /\ last'.result.ok /\ last'.userId = c)
                     => /\ companyStorage'[c].name = last'.payload.name
                        /\ companyStorage'[c].category = last'.payload.category
                        /\ companyStorage'[c].updatedAt = Time]_vars

\* C13 witness: a Company has just been updated, later than it was created.
C13_Witness ==
    /\ last.op = "updateCompany"
    /\ last.result.ok
    /\ companyStorage[last.userId].updatedAt > companyStorage[last.userId].createdAt
    /\ companyStorage[last.userId].name = ""

\* C14: getCompany(id) and updateCompany(id, payload) return the bad-payload
\* error for an empty id and the not-found error for a non-empty id that is
\* the key of no Company; a failed call leaves the company collection as it
\* was, and neither call ever adds a Company.
C14_CompanyLookupErrors ==
    [][last'.op \in {"getCompany", "updateCompany"}
           => /\ last'.userId = NoId => last'.result = Err(BadPayload)
              /\ (last'.userId # NoId /\ ~Has(companyStorage, last'.userId))
                     => last'.result = Err(CompanyNotFound)
              /\ ~last'.result.ok => UNCHANGED companyStorage
              /\ DOMAIN companyStorage' = DOMAIN companyStorage]_vars

\* C14 witness: updateCompany has just been refused for an id that is the key
\* of no Company, while another Company is stored.
C14_Witness ==
    /\ last.op = "updateCompany"
    /\ last.result = Err(CompanyNotFound)
    /\ last.userId # NoId
    /\ companyStorage # EmptyMap

\* C15: uploadFinancialStatement by a stored caller whose role is not
\* DivisionManager, and uploadAuditStatement by a stored caller whose role is
\* not Auditor, return an error and leave the seven collections unchanged,
\* whatever the url.
C15_UploadRoleExact ==
    [][(/\ last'.op \in {"uploadFinancialStatement", "uploadAuditStatement"}
        /\ Has(userStorage, last'.userId)
        /\ userStorage[last'.userId].role
               # (IF last'.op = "uploadFinancialStatement"
                  THEN DivisionManager ELSE Auditor))
           => (~last'.result.ok /\ UNCHANGED stores)]_vars

\* C15 witness: a caller whose role is DivisionManager and who controls a
\* stored Auditor entity has just been refused an audit-statement upload with
\* a non-empty url.
C15_Witness ==
    /\ last.op = "uploadAuditStatement"
    /\ last.text # ""
    /\ ~last.result.ok
    /\ Has(userStorage, last.userId)
    /\ userStorage[last.userId].role = DivisionManager
    /\ Has(auditorStorage, userStorage[last.userId].relatedId)

\* C16: once a Request r is Rejected while its User is still pending, every
\* later step leaves that User as it is (relatedId empty, role as submitted),
\* creates no Division or Auditor for r, and is no successful upload by that
\* User.
C16_RejectedStaysPending ==
    [][\A r \in DOMAIN requestStorage :
           (/\ requestStorage[r].status = rejected
            /\ userStorage[requestStorage[r].userId].relatedId = NoId)
               => /\ userStorage'[requestStorage[r].userId]
                         = userStorage[requestStorage[r].userId]
                  /\ \A e \in DOMAIN createdFor' :
                         createdFor'[e] = r => e \in DOMAIN createdFor
                  /\ (/\ last'.op \in {"uploadFinancialStatement",
                                       "uploadAuditStatement"}
                      /\ last'.userId = requestStorage[r].userId)
                         => ~last'.result.ok]_vars

\* C17: a successful createDivisionRequest(C, name) or createAuditorRequest(C)
\* adds exactly one User and exactly one Request: the Request is Waiting, has
\* companyId C, the new User's id as userId, the new User's role
\* (DivisionManager, resp. Auditor) and divisionName name (resp. "auditor");
\* the new User's relatedId is empty; stored Users and Requests are unchanged.
\* In every reachable state each Request's userId is the key of a stored User
\* and its companyId the key of a stored Company.
C17_RequestWithPendingUser ==
    /\ [](\A r \in DOMAIN requestStorage :
              /\ Has(userStorage, PrincipalFromText(requestStorage[r].userId))
              /\ Has(companyStorage, PrincipalFromText(requestStorage[r].companyId)))
    /\ [][(/\ last'.op \in {"createDivisionRequest", "createAuditorRequest"}
           /\ last'.result.ok)
              => LET newUsers == DOMAIN userStorage' \ DOMAIN userStorage
                     newRequests == DOMAIN requestStorage' \ DOMAIN requestStorage
                     division == last'.op = "createDivisionRequest"
                 IN  /\ Cardinality(newUsers) = 1
                     /\ Cardinality(newRequests) = 1
                     /\ \A u \in newUsers, q \in newRequests :
                            /\ userStorage'[u].id = u
                            /\ userStorage'[u].relatedId = NoId
                            /\ userStorage'[u].role
                                   = (IF division THEN DivisionManager ELSE Auditor)
                            /\ requestStorage'[q].id = q
                            /\ requestStorage'[q].status = waiting
                            /\ requestStorage'[q].companyId = last'.userId
                            /\ requestStorage'[q].userId = ToText(u)
                            /\ requestStorage'[q].role = userStorage'[u].role
                            /\ requestStorage'[q].divisionName
                                   = (IF division THEN last'.text ELSE "auditor")
                     /\ \A u \in DOMAIN userStorage :
                            u \in DOMAIN userStorage' /\ userStorage'[u] = userStorage[u]
                     /\ \A q \in DOMAIN requestStorage :
                            /\ q \in DOMAIN requestStorage'
                            /\ requestStorage'[q] = requestStorage[q]]_vars

\* C17 witness: an auditor request has just been created beside a stored
\* division request of the same company.
C17_Witness ==
    /\ last.op = "createAuditorRequest"
    /\ last.result.ok
    /\ \E q1, q2 \in DOMAIN requestStorage :
           /\ requestStorage[q1].role = DivisionManager
           /\ requestStorage[q2].role = Auditor
           /\ requestStorage[q1].companyId = requestStorage[q2].companyId

\* C18: a successful rejectRequest(E, r) sets r's status to Rejected and
\* changes nothing else: r's other fields, every other Request, and the User,
\* Company, Division, Auditor and statement collections stay as they were.
C18_RejectChangesStatusOnly ==
    [][(last'.op = "rejectRequest" /\ last'.result.ok)
           => /\ DOMAIN requestStorage' = DOMAIN requestStorage
              /\ requestStorage'[last'.requestId]
                     = [requestStorage[last'.requestId] EXCEPT !.status = rejected]
              /\ \A q \in DOMAIN requestStorage \ {last'.requestId} :
                     requestStorage'[q] = requestStorage[q]
              /\ UNCHANGED <<userStorage, companyStorage, divisionStorage,
                             auditorStorage, financialStatementStorage,
                             auditStatementStorage>>]_vars

\* C18 witness: a Request has just been rejected while another Request of
\* the same company is still Waiting.
C18_Witness ==
    /\ last.op = "rejectRequest"
    /\ last.result.ok
    /\ requestStorage[last.requestId].status = rejected
    /\ \E q \in DOMAIN requestStorage :
           /\ q # last.requestId
           /\ requestStorage[q].status = waiting
           /\ requestStorage[q].companyId = requestStorage[last.requestId].companyId

\* C19: a call that returns an error leaves all seven collections exactly as
\* they were.
C19_ErrorsChangeNothing ==
    [][~last'.result.ok => UNCHANGED stores]_vars

\* C19 witness: a request for a company that does not exist has just been
\* refused, with Users, a Company and a Request already stored.
C19_Witness ==
    /\ last.op \in {"createDivisionRequest", "createAuditorRequest"}
    /\ last.result = Err(CompanyNotFound)
    /\ userStorage # EmptyMap
    /\ companyStorage # EmptyMap
    /\ requestStorage # EmptyMap

\* the error the guards of C20 give, in their order, for a call of op by
\* userId on requestId in the current state ("" when every guard passes)
GuardError(op, userId, requestId) ==
    IF userId = NoId THEN BadPayload
    ELSE IF ~Has(userStorage, userId) THEN UserNotFound
    ELSE IF userStorage[userId].role # Executive THEN Forbidden
    ELSE IF op \notin {"acceptRequest", "rejectRequest"} THEN ""
    ELSE IF ~Has(requestStorage, requestId) THEN NoRequestFound
    ELSE IF requestStorage[requestId].companyId # userStorage[userId].relatedId
         THEN Forbidden
    ELSE ""

\* C20: getAllRequests, getWaitingRequests, acceptRequest and rejectRequest
\* apply their guards in one order: empty callerId (bad payload), caller not
\* stored (not found), caller not an Executive (no access), then for accept
\* and reject Request not stored (not found), then Request of another company
\* (no access); the first guard that fails gives the error returned.  So a
\* stored caller who is not an Executive gets the no-access error whether or
\* not the Request exists.
C20_GuardOrder ==
    [][last'.op \in {"getAllRequests", "getWaitingRequests",
                     "acceptRequest", "rejectRequest"}
           => LET e == GuardError(last'.op, last'.userId, last'.requestId)
              IN  /\ e # "" => last'.result = Err(e)
                  /\ last'.result.msg \in {BadPayload, Forbidden, NoRequestFound}
                         => e = last'.result.msg]_vars

\* C20 witness: a stored caller who is not an Executive has just been refused
\* access by rejectRequest for a Request that does not exist.
C20_Witness ==
    /\ last.op = "rejectRequest"
    /\ last.result = Err(Forbidden)
    /\ Has(userStorage, last.userId)
    /\ userStorage[last.userId].role # Executive
    /\ ~Has(requestStorage, last.requestId)

\* C21: the Division and Auditor collections change only in a step in which
\* acceptRequest returns Ok, and that step adds one entity and rewrites none;
\* in every state each Division has a stored Request of role DivisionManager
\* with its companyId and divisionName, each Auditor has a stored Request of
\* role Auditor with its companyId, and that companyId is a stored Company.
C21_EntitiesOnlyByAccept ==
    /\ [](/\ \A d \in Values(divisionStorage) :
                \E r \in Values(requestStorage) :
                    /\ r.role = DivisionManager
                    /\ r.companyId = d.companyId
                    /\ r.divisionName = d.divisionName
          /\ \A a \in Values(auditorStorage) :
                /\ \E r \in Values(requestStorage) :
                       r.role = Auditor /\ r.companyId = a.companyId
                /\ Has(companyStorage, PrincipalFromText(a.companyId)))
    /\ [][(divisionStorage' # divisionStorage \/ auditorStorage' # auditorStorage)
              => /\ last'.op = "acceptRequest"
                 /\ last'.result.ok
                 /\ \A d \in DOMAIN divisionStorage :
                        Has(divisionStorage', d) /\ divisionStorage'[d] = divisionStorage[d]
                 /\ \A a \in DOMAIN auditorStorage :
                        Has(auditorStorage', a) /\ auditorStorage'[a] = auditorStorage[a]
                 /\ Cardinality(DOMAIN divisionStorage') + Cardinality(DOMAIN auditorStorage')
                      = Cardinality(DOMAIN divisionStorage)
                          + Cardinality(DOMAIN auditorStorage) + 1]_vars

\* C21 witness: an Auditor is stored and the Request it was created for has
\* just been rewritten by a successful rejectRequest.
C21_Witness ==
    /\ auditorStorage # EmptyMap
    /\ last.op = "rejectRequest"
    /\ last.result.ok
    /\ requestStorage[last.requestId].role = Auditor
    /\ last.requestId \in AcceptedOnce

C23_RoleMatchesRelatedId ==
    \A u \in Values(userStorage) :
        /\ u.relatedId # NoId =>
              /\ u.role = Executive => Has(companyStorage, PrincipalFromText(u.relatedId))
              /\ u.role = DivisionManager
                    => Has(divisionStorage, PrincipalFromText(u.relatedId))
              /\ u.role = Auditor => Has(auditorStorage, PrincipalFromText(u.relatedId))
        /\ ~(u.role = DivisionManager
                /\ Has(auditorStorage, PrincipalFromText(u.relatedId)))

\* what the stores hold about the company of User e: the User itself and the
\* Requests whose companyId is its relatedId
CompanyView(e) ==
    [user |-> userStorage[e],
     requests |-> {r \in Values(requestStorage) :
                       r.companyId = userStorage[e].relatedId}]

\* the step just taken is a call that concerns the company of User e: a
\* Request created for that company, or acceptRequest / rejectRequest called
\* by e.  Every other call concerns other companies or reads only.
OwnCompanyStep(e) ==
    \/ /\ last'.op \in {"createDivisionRequest", "createAuditorRequest"}
       /\ last'.userId = userStorage[e].relatedId
    \/ /\ last'.op \in {"acceptRequest", "rejectRequest"}
       /\ last'.userId = e

\* C24: no cross-company visibility.  For every Executive e, (1) a step that
\* does not concern e's company leaves e's view of the stores unchanged,
\* (2) what getAllRequests(e) and getWaitingRequests(e) may return is
\* determined by that view alone, and (3) every Request returned carries
\* e's relatedId as companyId.  By (1) and (2), two runs that differ only in
\* calls concerning other companies give e the same results.
C24_NoCrossCompanyVisibility ==
    /\ [](last.op \in {"getAllRequests", "getWaitingRequests"} /\ last.result.ok
             => \A r \in last.value.items :
                    r.companyId = userStorage[last.userId].relatedId)
    /\ [][\A e \in DOMAIN userStorage :
              userStorage[e].role = Executive =>
                  /\ ~OwnCompanyStep(e) =>
                        /\ userStorage'[e] = userStorage[e]
                        /\ {r \in Values(requestStorage') :
                                r.companyId = userStorage[e].relatedId}
                             = CompanyView(e).requests
                  /\ (last'.op = "getAllRequests" /\ last'.userId = e)
                        => /\ last'.result.ok
                           /\ last'.value \in Find(CompanyView(e).requests)
                  /\ (last'.op = "getWaitingRequests" /\ last'.userId = e)
                        => /\ last'.result.ok
                           /\ last'.value \in
                                Find({r \in CompanyView(e).requests :
                                          r.status = waiting})]_vars

\* C24 witness: two Companies are stored, a Request of one of them is stored,
\* and getAllRequests called by the Executive of the other has just found
\* nothing.
C24_Witness ==
    /\ last.op = "getAllRequests"
    /\ last.result.ok
    /\ last.value = Undefined
    /\ \E r \in Values(requestStorage) :
           r.companyId # userStorage[last.userId].relatedId

\* the Executive Users whose relatedId is c
ExecutivesOf(c) ==
    {u \in DOMAIN userStorage :
         userStorage[u].role = Executive /\ userStorage[u].relatedId = c}

\* C25: in every state each Company is the relatedId of exactly one Executive
\* and each Executive's relatedId is a stored Company; no step changes the
\* role or relatedId of an Executive; and a step in which acceptRequest
\* returns Ok overwrites only a non-Executive User that a stored Request
\* names as its userId (a User created by createDivisionRequest or
\* createAuditorRequest).
C25_ExecutivesAndCompanies ==
    /\ [](/\ \A c \in DOMAIN companyStorage : Cardinality(ExecutivesOf(c)) = 1
          /\ \A u \in Values(userStorage) :
                u.role = Executive => Has(companyStorage, PrincipalFromText(u.relatedId)))
    /\ [][/\ \A u \in DOMAIN userStorage :
                userStorage[u].role = Executive
                    => /\ userStorage'[u].role = Executive
                       /\ userStorage'[u].relatedId = userStorage[u].relatedId
          /\ (last'.op = "acceptRequest" /\ last'.result.ok)
                => \A u \in DOMAIN userStorage :
                       userStorage'[u] # userStorage[u]
                           => /\ userStorage[u].role # Executive
                              /\ \E r \in Values(requestStorage) : r.userId = u]_vars

\* C25 witness: acceptRequest has just returned Ok and overwritten the
\* Request's User, and its caller is still the Executive of the Company.
C25_Witness ==
    /\ last.op = "acceptRequest"
    /\ last.result.ok
    /\ userStorage[requestStorage[last.requestId].userId].relatedId # NoId
    /\ userStorage[last.userId].role = Executive
    /\ ExecutivesOf(requestStorage[last.requestId].companyId) = {last.userId}

\* C26: in every state each stored Division and each stored Auditor is the
\* relatedId of exactly one User.
C26_OneUserPerEntity ==
    \A x \in (DOMAIN divisionStorage) \cup (DOMAIN auditorStorage) :
        Cardinality({u \in DOMAIN userStorage : userStorage[u].relatedId = ToText(x)}) = 1

=============================================================================
